---- MODULE Spec2Model ----
(***************************************************************************)
(* PyModMonLCD: the self-rescheduling poll/render cycle of                 *)
(* pymodmon_cglcd_led_3.py (colour panel) and pymodmon_glcd_led_3.py (mono *)
(* panel), as a state machine.                                             *)
(*                                                                         *)
(* Threads: thread 0 is the main thread (the Tk button callbacks in GUI    *)
(* mode, the command line section otherwise); threads 1..MaxChains are     *)
(* threading.Timer threads.  A thread inside runCommunication has a        *)
(* position pc; the steps are connect and the loop of pollTargetData, the  *)
(* hand-over to data.datawritebuffer, the render and the new Timer.        *)
(*                                                                         *)
(* ModbusTcpClient.connect() reports a failed connect by its return value, *)
(* which runCommunication ignores, so the connect step never raises.       *)
(***************************************************************************)
EXTENDS Integers, Sequences, FiniteSets, TLC

\* ---------------------------------------------------------------- bounds
\* at most this many poll chains (pending timers plus cycles in flight)
MaxChains == 2
\* the error counters and the failure streak are followed up to this value
MaxErrors == 1
\* watt values from -MaxNegWatt up to MaxLedWatt are given to the LED
\* ladders
MaxNegWatt == 120
MaxLedWatt == 2300
\* the mono panel is taken PanelWidth columns wide and PanelPages pages of
\* 8 rows high (GLCD.width = 128, GLCD.pages = 8)
PanelWidth == 3
PanelPages == 2
\* watt values from -MaxNegWatt up to MaxWatt are given to the gauge
MaxWatt == 10100

\* a Modbus register is a 16 bit word
Two16 == 65536

VARIABLES
    variant,        \* "colour" (pymodmon_cglcd_led_3) or "mono" (pymodmon_glcd_led_3)
    gui_active,     \* module global gui_active
    arguments,      \* docopt's arguments: [graphical, single]
    disp_graphical, \* module global disp_graphical: "unset", "0" or "1"
    datasets,       \* data.datasets, header row first
    datavector,     \* data.datavector
    datawritebuffer,\* data.datawritebuffer (a list of at most one vector)
    errorcounter,   \* Inout.message_errorcounter (colour variant)
    commtimer,      \* state of the Timer inout.commtimer refers to
    orphans,        \* pending Timers no longer referred to by inout.commtimer
    runner,         \* per thread: position inside runCommunication
    mainpc,         \* main thread: button command (GUI) or script position
    panel,          \* values shown by Gui.updateLoggerDisplay
    lcd,            \* what the last display write shows
    led_data,       \* LED.led_data: <<red byte, green and backlight byte>>
    led_out,        \* the bytes of the last LED.display() transfer
    hist,           \* history: what the claims refer to but the program forgets
    call            \* the last call of a function taken on its own: arguments and result

vars == <<variant, gui_active, arguments, disp_graphical, datasets, datavector,
          datawritebuffer, errorcounter, commtimer, orphans, runner,
          mainpc, panel, lcd, led_data, led_out, hist, call>>

Threads == 0..MaxChains
TimerThreads == 1..MaxChains

\* ------------------------------------------------------------ Data class
\* data.moddatatype: register count per data type
moddatatype ==
    IF variant = "colour"
    THEN [t \in {"S32", "U32", "U64", "STR32", "S16", "U16"} |->
            CASE t = "S32" -> 2 [] t = "U32" -> 2 [] t = "U64" -> 4
              [] t = "STR32" -> 16 [] t = "S16" -> 1 [] t = "U16" -> 1]
    ELSE [t \in {"S32", "U32", "U64", "STR32", "STR24", "S16", "U16"} |->
            CASE t = "S32" -> 2 [] t = "U32" -> 2 [] t = "U64" -> 4
              [] t = "STR32" -> 16 [] t = "STR24" -> 12
              [] t = "S16" -> 1 [] t = "U16" -> 1]

Header == [type |-> "type", format |-> "format"]

Row(t, f) == [type |-> t, format |-> f]

\* the six rows the fixed LCD layout expects: DC power, AC power, DC voltage,
\* daily yield, power from grid, power to grid
TableStd ==
    <<Header, Row("S32", "FIX0"), Row("S32", "FIX0"), Row("U32", "FIX2"),
      Row("U32", "FIX0"), Row("S32", "FIX0"), Row("S32", "RAW")>>

\* the same table with a data type the program does not know in row 3
TableUnknown ==
    <<Header, Row("S32", "FIX0"), Row("S32", "FIX0"), Row("S8", "FIX0"),
      Row("U32", "FIX0"), Row("S32", "FIX0"), Row("S32", "RAW")>>

Tables == {TableStd, TableUnknown}

\* ------------------------------------------------------------- integers
\* Python integers are unbounded; a decoded integer is kept as a sign and
\* its magnitude in base 65536 (most significant digit first, no leading 0)
RECURSIVE Normal(_)
Normal(digits) ==
    IF digits # <<>> /\ digits[1] = 0 THEN Normal(Tail(digits)) ELSE digits

Null == [kind |-> "null"]
IntVal(neg, digits) ==
    [kind |-> "int", neg |-> neg /\ Normal(digits) # <<>>, mag |-> Normal(digits)]
FloatVal(n, d) == [kind |-> "float", num |-> n, den |-> d]
TextVal(s) == [kind |-> "text", s |-> s]

\* Inout.MIN_SIGNED = -2147483648 and Inout.MAX_UNSIGNED = 4294967295
MIN_SIGNED == IntVal(TRUE, <<32768, 0>>)
MAX_UNSIGNED == IntVal(FALSE, <<65535, 65535>>)

\* an integer of less than 31 bits as a value record, and back
Small(n) ==
    IF n >= 0 THEN IntVal(FALSE, <<n \div Two16, n % Two16>>)
    ELSE IntVal(TRUE, <<(-n) \div Two16, (-n) % Two16>>)

ToInt(x) ==
    LET m == IF Len(x.mag) = 0 THEN 0
             ELSE IF Len(x.mag) = 1 THEN x.mag[1]
             ELSE x.mag[1] * Two16 + x.mag[2]
    IN  IF x.neg THEN -m ELSE m

\* ------------------------------------------------------------ the target
\* the two registers of a 32 bit two's complement value, big-endian
Words32(n) ==
    IF n >= 0 THEN <<n \div Two16, n % Two16>>
    ELSE <<65535 - ((-n - 1) \div Two16), 65535 - ((-n - 1) % Two16)>>

\* the registers of a value that is not available (SMA's NaN of an S32)
NaNWords == <<32768, 0>>

\* register contents the Modbus target holds for the k-th data row
Readings(k) ==
    CASE k = 1 -> {Words32(700)}
      [] k = 2 -> {Words32(500)}
      [] k = 3 -> {Words32(30000)}
      [] k = 4 -> {Words32(1200)}
      [] k = 5 -> {NaNWords, Words32(200)}
      [] k = 6 -> {Words32(100)}
      [] OTHER -> {Words32(0)}

\* the words the target returns when count registers are requested at the
\* address of a 32 bit value: the registers beyond the value read 0
Registers(words, count) ==
    [j \in 1..count |-> IF j <= Len(words) THEN words[j] ELSE 0]

\* what one read_input_registers call can yield besides registers
\*   exc: the call raises (target not responding)
\*   err: an error response (isError() is true, no registers attribute)
\*   bad: a response whose registers BinaryPayloadDecoder cannot take
Failures == {"exc", "err", "bad"}

\* the register contents of the first n data rows during one cycle
RECURSIVE Vectors(_)
Vectors(n) ==
    IF n = 0 THEN {<<>>}
    ELSE {Append(v, w) : v \in Vectors(n - 1), w \in Readings(n)}

\* the responses of one cycle: the target answers row k with ws[k], and
\* the read of the row after the last of ws fails with why ("none": the
\* target answers all n rows)
Responses(ws, why) ==
    [k \in 1..(Len(ws) + 1) |->
        IF k > Len(ws) THEN [kind |-> why, words |-> <<>>]
        ELSE [kind |-> "ok", words |-> ws[k]]]

\* what the target can do during one cycle over n rows
CyclesOf(n) ==
    {Responses(ws, "none") : ws \in Vectors(n)}
    \cup UNION {{Responses(ws, why) : ws \in Vectors(k - 1), why \in Failures} :
                 k \in 1..n}

\* data.datasets holds at most this many data rows
MaxRows == 6

Cycles == [n \in 0..MaxRows |-> CyclesOf(n)]

\* ------------------------------------------------------------- decoding
\* decode_16bit_uint, decode_32bit_uint, decode_64bit_uint
Unsigned(regs) == IntVal(FALSE, regs)

\* regs + 1 as digits of the same length (the carry out of the top is dropped)
RECURSIVE Increment(_)
Increment(regs) ==
    IF regs = <<>> THEN <<>>
    ELSE LET n == Len(regs)
         IN  IF regs[n] < 65535
             THEN [regs EXCEPT ![n] = @ + 1]
             ELSE Append(Increment(SubSeq(regs, 1, n - 1)), 0)

\* decode_16bit_int, decode_32bit_int: two's complement
Signed(regs) ==
    IF regs[1] >= 32768
    THEN IntVal(TRUE, Increment([j \in 1..Len(regs) |-> 65535 - regs[j]]))
    ELSE IntVal(FALSE, regs)

\* the bytes of a register list
RECURSIVE Bytes(_)
Bytes(regs) ==
    IF regs = <<>> THEN <<>>
    ELSE <<regs[1] \div 256, regs[1] % 256>> \o Bytes(Tail(regs))

\* str.strip('\x00'): NULs are taken off both ends
RECURSIVE StripNul(_)
StripNul(s) ==
    IF s = <<>> THEN s
    ELSE IF s[1] = 0 THEN StripNul(Tail(s))
    ELSE IF s[Len(s)] = 0 THEN StripNul(SubSeq(s, 1, Len(s) - 1))
    ELSE s

\* pollTargetData, "provide the correct result depending on the defined datatype"
Interpret(type, regs) ==
    CASE type = "S32" -> Signed(SubSeq(regs, 1, 2))
      [] type = "U32" -> Unsigned(SubSeq(regs, 1, 2))
      [] type = "U64" -> Unsigned(SubSeq(regs, 1, 4))
      [] type = "STR32" -> TextVal(StripNul(Bytes(SubSeq(regs, 1, 16))))
      [] type = "STR24" /\ variant = "mono" ->
            TextVal(StripNul(Bytes(SubSeq(regs, 1, 12))))
      [] type = "S16" -> Signed(SubSeq(regs, 1, 1))
      [] OTHER -> Unsigned(SubSeq(regs, 1, 1))

\* float(interpreted) raised: the text of a STR row is no number
Raised == [kind |-> "raised"]

\* float(text) takes a text of decimal digits (of the texts over the bytes
\* NUL, "7" and "A" that the string registers hold here, exactly those)
IsNumeral(s) == s # <<>> /\ \A i \in 1..Len(s) : s[i] \in 48..57

RECURSIVE NumeralValue(_)
NumeralValue(s) ==
    IF s = <<>> THEN 0
    ELSE 10 * NumeralValue(SubSeq(s, 1, Len(s) - 1)) + (s[Len(s)] - 48)

\* float(interpreted) / den
Scaled(interpreted, den) ==
    IF interpreted.kind = "text"
    THEN IF IsNumeral(interpreted.s)
         THEN FloatVal(Small(NumeralValue(interpreted.s)), den)
         ELSE Raised
    ELSE FloatVal(interpreted, den)

\* a check for "None" data that knows the signed NaN only
DisplayDataSigned(interpreted, format) ==
    IF interpreted = MIN_SIGNED
    THEN Null
    ELSE CASE format = "FIX3" -> Scaled(interpreted, 1000)
           [] format = "FIX2" -> Scaled(interpreted, 100)
           [] format = "FIX1" -> Scaled(interpreted, 10)
           [] OTHER -> interpreted

\* pollTargetData, "check for None data" and the format scaling; a text is
\* stored as it is unless the format asks for float(text), which raises
\* ValueError for a text that is no number
DisplayData(interpreted, format) ==
    IF interpreted \in {MIN_SIGNED, MAX_UNSIGNED}
    THEN Null
    ELSE CASE format = "FIX3" -> Scaled(interpreted, 1000)
           [] format = "FIX2" -> Scaled(interpreted, 100)
           [] format = "FIX1" -> Scaled(interpreted, 10)
           [] OTHER -> interpreted

\* ------------------------------------------------------------- LED class
green_leds(level) ==
    CASE level = 0 -> 0 [] level = 1 -> 1 [] level = 2 -> 3 [] level = 3 -> 7
      [] level = 4 -> 15 [] level = 5 -> 31 [] level = 6 -> 63 [] OTHER -> 127

\* a red table that fills the byte from bit 0 upwards
red_leds_low(level) ==
    CASE level = 0 -> 0 [] level = 1 -> 1 [] level = 2 -> 3 [] level = 3 -> 7
      [] level = 4 -> 15 [] level = 5 -> 31 [] level = 6 -> 63 [] OTHER -> 127

red_leds(level) ==
    CASE level = 0 -> 0 [] level = 1 -> 64 [] level = 2 -> 96 [] level = 3 -> 112
      [] level = 4 -> 120 [] level = 5 -> 124 [] level = 6 -> 126 [] OTHER -> 127

\* a set_led whose green branch does not keep the backlight bit
set_led_flush(data, color, level) ==
    LET l == IF level > 7 THEN 7 ELSE IF level < 0 THEN 0 ELSE level
    IN  CASE color = "green" -> <<data[1], green_leds(l)>>
          [] color = "red" -> <<red_leds(l), data[2]>>
          [] color = "backlight" ->
               <<data[1], (data[2] % 128) + (IF l = 0 THEN 0 ELSE 1) * 128>>
          [] OTHER -> data

\* LED.set_led: the new led_data
set_led(data, color, level) ==
    LET l == IF level > 7 THEN 7 ELSE IF level < 0 THEN 0 ELSE level
    IN  CASE color = "green" ->
               <<data[1], (data[2] \div 128) * 128 + green_leds(l)>>
          [] color = "red" -> <<red_leds(l), data[2]>>
          [] color = "backlight" ->
               <<data[1], (data[2] % 128) + (IF l = 0 THEN 0 ELSE 1) * 128>>
          [] OTHER -> data

\* ------------------------------------------------- writeLoggerDataLCD
IsNum(x) == x.kind \in {"int", "float"}

TruncDiv(n, d) == IF n >= 0 THEN n \div d ELSE -((-n) \div d)

\* int(float(str(x))) in the colour variant, int(str(x)) in the mono one
IntOf(x) == IF x.kind = "int" THEN ToInt(x) ELSE TruncDiv(ToInt(x.num), x.den)

\* x > threshold for a number x
Above(x, thr) ==
    IF x.kind = "int" THEN ToInt(x) > thr ELSE ToInt(x.num) > thr * x.den

\* a ladder that compares with >= instead of >
LevelFrom(x) ==
    IF Above(x, 2199) THEN 7
    ELSE IF Above(x, 1399) THEN 6
    ELSE IF Above(x, 829) THEN 5
    ELSE IF Above(x, 449) THEN 4
    ELSE IF Above(x, 229) THEN 3
    ELSE IF Above(x, 119) THEN 2
    ELSE IF Above(x, 59) THEN 1
    ELSE 0

\* the elif ladder of writeLoggerDataLCD over 2200, 1400, 830, 450, 230, 120, 60
Level(x) ==
    IF Above(x, 2200) THEN 7
    ELSE IF Above(x, 1400) THEN 6
    ELSE IF Above(x, 830) THEN 5
    ELSE IF Above(x, 450) THEN 4
    ELSE IF Above(x, 230) THEN 3
    ELSE IF Above(x, 120) THEN 2
    ELSE IF Above(x, 60) THEN 1
    ELSE 0

\* str(x) can be given to int() (mono) or to int(float()) (colour)
Convertible(x) ==
    IF variant = "colour" THEN IsNum(x) ELSE x.kind = "int"

\* writeLoggerDataLCD raises before anything is drawn: a missing field
\* (IndexError), a value int() cannot take (ValueError, TypeError), or the
\* unassigned global disp_graphical (NameError)
RenderRaises(dv) ==
    \/ Len(dv) < 6
    \/ dv[3].kind = "text"
    \/ dv[2] # Null /\ ~Convertible(dv[2])
    \/ ~Convertible(dv[5])
    \/ ~Convertible(dv[6])
    \/ disp_graphical = "unset"

OrZero(x) == IF x = Null THEN Small(0) ELSE x

load_wa_i(dv) == IntOf(OrZero(dv[2])) + IntOf(dv[5]) - IntOf(dv[6])

\* what the canvas shows after a render of dv
Drawn(dv) ==
    [values |-> <<OrZero(dv[1]), OrZero(dv[2]), OrZero(dv[3]), OrZero(dv[4]),
                  dv[5], dv[6]>>,
     load |-> load_wa_i(dv),
     layout |-> IF disp_graphical = "0" THEN "text" ELSE "graphical"]

\* the led_data after the two set_led calls of writeLoggerDataLCD
LedsFor(dv) ==
    set_led(set_led(led_data, "green", Level(OrZero(dv[2]))),
            "red", Level(Small(load_wa_i(dv))))

\* ---------------------------------------------------------------- state
\* the local message_errorcounter of the mono pollTargetData before its
\* first assignment
Unbound == -1

InFlightPc == {"poll", "publish", "render", "close"}
InFlight == {t \in Threads : runner[t] \in InFlightPc}
PendingTimers == (IF commtimer = "pending" THEN 1 ELSE 0) + orphans
LiveChains == Cardinality(InFlight) + PendingTimers

\* history of the cycle a thread is in: why pollTargetData abandoned it
\* ("none": it did not), whether stop was called during it,
\* and the failure reports it has produced
NoCycle == [cause |-> "none", cancelled |-> FALSE, reports |-> <<>>]

Blank == [values |-> <<>>, load |-> 0, layout |-> "blank"]

Bump(n) == IF n < MaxErrors THEN n + 1 ELSE n

\* no function has been called on its own
NoCall == [fn |-> "none"]

Init ==
    /\ variant \in {"colour", "mono"}
    /\ gui_active \in {0, 1}
    /\ arguments \in [graphical : {"True", "False"}, single : {"True", "False"}]
    /\ gui_active = 1 => arguments = [graphical |-> "False", single |-> "False"]
    /\ disp_graphical = "unset"
    /\ datasets \in Tables
    /\ datavector = <<>>
    /\ datawritebuffer = <<>>
    /\ errorcounter = 0
    /\ commtimer = "none"
    /\ orphans = 0
    /\ runner = [t \in Threads |-> "idle"]
    /\ mainpc = IF gui_active = 1 THEN "start" ELSE "init"
    /\ panel = <<>>
    /\ lcd = Blank
    /\ led_data = <<0, 0>>
    /\ led_out = <<0, 0>>
    /\ hist = [cyc |-> [t \in Threads |-> NoCycle], streak |-> 0,
               lastgood |-> <<>>, hasgood |-> FALSE, stopped |-> FALSE]
    /\ call = NoCall

\* ------------------------------------------------------- pollTargetData
\* the locals and globals the loop of pollTargetData works on:
\*   k    the row the loop is at        dv   data.datavector
\*   cnt  Inout.message_errorcounter    ec   the mono local message_errorcounter
\*   end  "run", or how the loop ended: "done", "return" or "raise"
LoopStart(cnt) ==
    [k |-> 1, dv |-> <<>>, cnt |-> cnt, ec |-> Unbound, end |-> "run",
     cause |-> "none"]

\* the first except branch: read_input_registers raised, or the lookup
\* data.moddatatype[thisrow[1]] inside the same try raised KeyError; the
\* failure is reported and pollTargetData returns
ConnectionFailure(st, why) == [st EXCEPT !.end = "return", !.cause = why]

\* the response is an error response or cannot be decoded: the error
\* counter is incremented, the failure reported and pollTargetData returns;
\* in the mono variant the increment of the unassigned local raises
\* UnboundLocalError
DataFailure(st, why) ==
    IF variant = "colour"
    THEN [st EXCEPT !.cnt = @ + 1, !.end = "return", !.cause = why]
    ELSE IF st.ec = Unbound
    THEN [st EXCEPT !.end = "raise", !.cause = why]
    ELSE [st EXCEPT !.ec = @ + 1, !.end = "return", !.cause = why]

\* the response holds registers: the error counter is reset, the registers
\* are decoded and scaled, the value is appended to data.datavector
Decoded(st, row, regs) ==
    LET displaydata == DisplayData(Interpret(row.type, regs), row.format)
        reset == IF variant = "colour" THEN [st EXCEPT !.cnt = 0]
                 ELSE [st EXCEPT !.ec = 0]
    IN  IF displaydata = Raised
        THEN [reset EXCEPT !.end = "raise", !.cause = "float"]
        ELSE [reset EXCEPT !.dv = Append(@, displaydata), !.k = @ + 1]

\* one pass of the loop for row st.k
ReadRow(st, rows, resp) ==
    LET row == rows[st.k]
    IN  IF row.type \notin DOMAIN moddatatype
        THEN ConnectionFailure(st, "KeyError")
        ELSE IF resp[st.k].kind = "exc"
        THEN ConnectionFailure(st, "exc")
        ELSE IF resp[st.k].kind \in {"err", "bad"}
        THEN DataFailure(st, resp[st.k].kind)
        ELSE Decoded(st, row, Registers(resp[st.k].words, moddatatype[row.type]))

\* for thisrow in data.datasets[1:]
RECURSIVE Loop(_, _, _)
Loop(st, rows, resp) ==
    IF st.end # "run" THEN st
    ELSE IF st.k > Len(rows) THEN [st EXCEPT !.end = "done"]
    ELSE Loop(ReadRow(st, rows, resp), rows, resp)

\* ------------------------------------------------------ runCommunication
\* a thread enters runCommunication
Enter(t) == [runner EXCEPT ![t] = "poll"]

EnterCycle(t) == NoCycle

\* the history when thread t leaves runCommunication, by return or by raise
Left(h, t) == [h EXCEPT !.cyc[t] = NoCycle]

\* the sink a failure is reported on: messagebox.showerror when the
\* control panel is active, print otherwise
ActiveSink == IF gui_active = 1 THEN "dialog" ELSE "console"

\* a report: where it appears, whether its text starts with thisdate and
\* whether (and which) error count it ends with
Report(sink, stamped, counted, count) ==
    [sink |-> sink, stamped |-> stamped, counted |-> counted, count |-> count]

\* what pollTargetData has reported when its loop has ended in st:
\*   - the first except branch reports 'Connection not possible...'
\*   - the colour variant prints 'Receive error! Error count: n' for an
\*     error response, also when the control panel is active
\*   - the second except branch reports 'Received data not valid. Error
\*     count:n'; the colour variant first prints 'Received is: ...'
\*   - an exception that leaves pollTargetData reports nothing
Reports(st) ==
    CASE st.end # "return" -> <<>>
      [] st.cause \in {"exc", "KeyError"} ->
            <<Report(ActiveSink, TRUE, FALSE, 0)>>
      [] variant = "colour" /\ st.cause = "err" ->
            <<Report("console", TRUE, TRUE, st.cnt)>>
      [] variant = "colour" /\ st.cause = "bad" ->
            <<Report("console", FALSE, FALSE, 0),
              Report(ActiveSink, TRUE, TRUE, st.cnt)>>
      [] OTHER -> <<Report(ActiveSink, TRUE, TRUE, st.ec)>>

\* the history when the loop of thread t has ended in st
Polled(t, st) ==
    IF st.end = "done" THEN hist
    ELSE [hist EXCEPT !.cyc[t].cause = st.cause,
                      !.cyc[t].reports = Reports(st),
                      !.streak = Bump(hist.streak)]

\* where the main thread is after an exception has left runCommunication
\* in thread t: the Tk callback is over and the button unchanged (GUI); the
\* script is over (command line); a timer thread just ends
AfterRaise(t) ==
    IF t = 0 /\ gui_active = 0 THEN "aborted" ELSE mainpc

\* runCommunication from its start to the end of the loop of
\* pollTargetData: the client is created and connected, data.datavector is
\* emptied and the rows of data.datasets[1:] are read one after the other,
\* until the last row or the first failure
Poll(t) ==
    /\ runner[t] = "poll"
    /\ \E resp \in Cycles[Len(datasets) - 1] :
          /\ resp[Len(resp)].kind \in {"err", "bad"} =>
                (hist.streak < MaxErrors /\ errorcounter < MaxErrors)
          /\ LET st == Loop(LoopStart(errorcounter), Tail(datasets), resp)
             IN  /\ datavector' = st.dv
                 /\ errorcounter' = st.cnt
                 /\ hist' = IF st.end = "raise"
                            THEN Left(Polled(t, st), t)
                            ELSE Polled(t, st)
                 /\ runner' = [runner EXCEPT ![t] =
                                  CASE st.end = "done" -> "publish"
                                    [] st.end = "return" -> "close"
                                    [] OTHER -> "idle"]
                 /\ mainpc' = IF st.end = "raise" THEN AfterRaise(t) ELSE mainpc
    /\ UNCHANGED <<call, variant, gui_active, arguments, disp_graphical, datasets,
                   datawritebuffer, commtimer, orphans, panel, lcd, led_data,
                   led_out>>

\* the loop has ended: the panel is updated and the vector is handed to
\* data.datawritebuffer through data.databuffer
Publish(t) ==
    /\ runner[t] = "publish"
    /\ panel' = IF gui_active = 1 THEN datavector ELSE panel
    /\ datawritebuffer' = <<datavector>>
    /\ runner' = [runner EXCEPT ![t] = "render"]
    /\ hist' = [hist EXCEPT !.streak = 0, !.lastgood = datavector,
                            !.hasgood = TRUE]
    /\ UNCHANGED <<call, variant, gui_active, arguments, disp_graphical, datasets,
                   datavector, errorcounter, commtimer, orphans, mainpc, lcd,
                   led_data, led_out>>

\* writeLoggerDataLCD: draw, encode, write the display, set and write the LEDs
Render(t) ==
    /\ runner[t] = "render"
    /\ LET dv == datawritebuffer[1]
       IN  IF RenderRaises(dv)
           THEN /\ runner' = [runner EXCEPT ![t] = "idle"]
                /\ hist' = Left(hist, t)
                /\ mainpc' = AfterRaise(t)
                /\ UNCHANGED <<lcd, led_data, led_out>>
           ELSE /\ runner' = [runner EXCEPT ![t] = "close"]
                /\ lcd' = Drawn(dv)
                /\ led_data' = LedsFor(dv)
                /\ led_out' = LedsFor(dv)
                /\ UNCHANGED <<mainpc, hist>>
    /\ UNCHANGED <<call, variant, gui_active, arguments, disp_graphical, datasets,
                   datavector, datawritebuffer, errorcounter, commtimer,
                   orphans, panel>>

\* a runCommunication that creates and starts the Timer before it calls
\* pollTargetData, while the cycle of thread t is still to be done
ArmAtOnce(t) ==
    /\ runner[t] = "poll"
    /\ commtimer # "pending"
    /\ commtimer' = "pending"
    /\ UNCHANGED <<call, variant, gui_active, arguments, disp_graphical, datasets,
                   datavector, datawritebuffer, errorcounter, orphans, runner,
                   mainpc, panel, lcd, led_data, led_out, hist>>

\* pollTargetData has returned: the client is closed, a new Timer is
\* created, assigned to inout.commtimer and started.  In the main thread
\* the caller goes on: the button becomes the stop button (GUI), the
\* script reaches the --single test (command line)
Arm(t) ==
    /\ runner[t] = "close"
    /\ runner' = [runner EXCEPT ![t] = "idle"]
    /\ orphans' = IF commtimer = "pending" THEN orphans + 1 ELSE orphans
    /\ commtimer' = "pending"
    /\ mainpc' = IF t # 0 THEN mainpc
                 ELSE IF gui_active = 1 THEN "stop" ELSE "returned"
    /\ hist' = Left(hist, t)
    /\ UNCHANGED <<call, variant, gui_active, arguments, disp_graphical, datasets,
                   datavector, datawritebuffer, errorcounter, panel, lcd,
                   led_data, led_out>>

\* --------------------------------------------------------------- timers
FreeThreads == {t \in TimerThreads : runner[t] \notin InFlightPc}
FreeThread == CHOOSE t \in FreeThreads : \A u \in FreeThreads : t <= u

\* the Timer inout.commtimer refers to fires: its thread calls runCommunication
FireCommTimer ==
    /\ commtimer = "pending"
    /\ FreeThreads # {}
    /\ commtimer' = "fired"
    /\ runner' = Enter(FreeThread)
    /\ hist' = [hist EXCEPT !.cyc[FreeThread] = EnterCycle(FreeThread)]
    /\ UNCHANGED <<call, variant, gui_active, arguments, disp_graphical, datasets,
                   datavector, datawritebuffer, errorcounter, orphans,
                   mainpc, panel, lcd, led_data, led_out>>

\* a started Timer that inout.commtimer no longer refers to fires
FireOrphan ==
    /\ orphans > 0
    /\ FreeThreads # {}
    /\ orphans' = orphans - 1
    /\ runner' = Enter(FreeThread)
    /\ hist' = [hist EXCEPT !.cyc[FreeThread] = EnterCycle(FreeThread)]
    /\ UNCHANGED <<call, variant, gui_active, arguments, disp_graphical, datasets,
                   datavector, datawritebuffer, errorcounter, commtimer,
                   mainpc, panel, lcd, led_data, led_out>>

\* Inout.stopCommunication: Timer.cancel() stops a Timer that has not fired
\* yet and does nothing to one that has fired or was cancelled
Cancelled(timer) == IF timer = "pending" THEN "cancelled" ELSE timer

\* the history after a stop: the cycles in flight have seen a stop; the
\* stop found the scheduler waiting if a timer was pending and no cycle ran
Stopped ==
    [hist EXCEPT
       !.cyc = [t \in Threads |->
                  IF t \in InFlight
                  THEN [hist.cyc[t] EXCEPT !.cancelled = TRUE]
                  ELSE hist.cyc[t]],
       !.stopped = (InFlight = {} /\ PendingTimers > 0)]

\* ------------------------------------------------------------ Gui class
\* Gui.startCommunication: runs runCommunication in the Tk main thread; the
\* button is reconfigured only when that returns (see Arm)
StartPressed ==
    /\ gui_active = 1
    /\ mainpc = "start"
    /\ runner[0] \notin InFlightPc
    /\ LiveChains < MaxChains
    /\ runner' = Enter(0)
    /\ hist' = [hist EXCEPT !.cyc[0] = EnterCycle(0), !.stopped = FALSE]
    /\ UNCHANGED <<call, variant, gui_active, arguments, disp_graphical, datasets,
                   datavector, datawritebuffer, errorcounter, commtimer,
                   orphans, mainpc, panel, lcd, led_data, led_out>>

\* Gui.stopCommunication
StopPressed ==
    /\ gui_active = 1
    /\ mainpc = "stop"
    /\ commtimer' = Cancelled(commtimer)
    /\ mainpc' = "start"
    /\ hist' = Stopped
    /\ UNCHANGED <<call, variant, gui_active, arguments, disp_graphical, datasets,
                   datavector, datawritebuffer, errorcounter, orphans,
                   runner, panel, lcd, led_data, led_out>>

\* -------------------------------------------------- command line section
\* from "initialize LED and GLCD" to the first inout.runCommunication()
CliStart ==
    /\ gui_active = 0
    /\ mainpc = "init"
    /\ led_data' = set_led(led_data, "backlight", 1)
    /\ led_out' = set_led(led_data, "backlight", 1)
    /\ disp_graphical' = IF arguments.graphical # "None" THEN "1" ELSE "0"
    /\ mainpc' = "running"
    /\ runner' = Enter(0)
    /\ hist' = [hist EXCEPT !.cyc[0] = EnterCycle(0)]
    /\ UNCHANGED <<call, variant, gui_active, arguments, datasets, datavector,
                   datawritebuffer, errorcounter, commtimer, orphans,
                   panel, lcd>>

\* after the first runCommunication returned: with --single the timer is
\* cancelled and exit() runs cleanOnExit, otherwise the script ends and
\* the timer threads keep the process alive
CliAfterRun ==
    /\ gui_active = 0
    /\ mainpc = "returned"
    /\ IF arguments.single = "True"
       THEN /\ commtimer' = Cancelled(commtimer)
            /\ led_data' = <<0, 0>>
            /\ led_out' = <<0, 0>>
            /\ mainpc' = "exited"
            /\ hist' = Stopped
       ELSE /\ mainpc' = "ended"
            /\ UNCHANGED <<commtimer, led_data, led_out, hist>>
    /\ UNCHANGED <<call, variant, gui_active, arguments, disp_graphical, datasets,
                   datavector, datawritebuffer, errorcounter, orphans,
                   runner, panel, lcd>>

\* the process ends: the first runCommunication raised in the main thread,
\* or the script has ended and no timer thread is left; atexit runs
\* Inout.cleanOnExit, whose stopCommunication finds no pending timer
CleanOnExit ==
    /\ gui_active = 0
    /\ \/ mainpc = "aborted"
       \/ mainpc = "ended" /\ LiveChains = 0
    /\ mainpc' = "exited"
    /\ commtimer' = Cancelled(commtimer)
    /\ led_data' = <<0, 0>>
    /\ led_out' = <<0, 0>>
    /\ UNCHANGED <<call, variant, gui_active, arguments, disp_graphical, datasets,
                   datavector, datawritebuffer, errorcounter, orphans,
                   runner, panel, lcd, hist>>

Next ==
    \/ \E t \in Threads : Poll(t)
    \/ \E t \in Threads : Publish(t)
    \/ \E t \in Threads : Render(t)
    \/ \E t \in Threads : Arm(t)
    \/ FireCommTimer
    \/ FireOrphan
    \/ StartPressed
    \/ StopPressed
    \/ CliStart
    \/ CliAfterRun
    \/ CleanOnExit

Spec == Init /\ [][Next]_vars

\* ================================================ functions on their own
\* Each action below calls one function of the program once, with arguments
\* drawn from a bounded set, and records arguments and result in call.

\* the keys of Data.moddatatype (mono variant; the colour one has no STR24)
Types == {"S16", "U16", "S32", "U32", "U64", "STR24", "STR32"}

\* Data.dataformat
dataformat == {"ENUM", "UTF8", "FIX3", "FIX2", "FIX1", "FIX0", "RAW"}

\* register contents of the target, from the address of a row on (the
\* registers after them read 0): the two NaN patterns, small and large
\* values, and the texts "7", "A7", "77" and ""
Contents ==
    {<<32768, 0>>, <<65535, 65535>>, <<0, 700>>, <<65535, 65534>>,
     <<32767, 65535>>, <<0, 0, 65535, 65535>>, <<0, 0, 32768, 0>>,
     <<0, 1, 0, 0>>, <<14080>>, <<16695>>, <<55, 14080>>, <<0>>}

\* the registers hold 7 bit characters, which .decode("utf-8") takes
Ascii(words) == \A j \in 1..Len(words) : words[j] \div 256 < 128 /\ words[j] % 256 < 128

\* no value: the row was not interpreted
NoValue == [kind |-> "none"]

\* the program as it is when it is not polling
InitUnits ==
    /\ Init
    /\ gui_active = 0
    /\ arguments = [graphical |-> "False", single |-> "False"]
    /\ datasets = TableStd

program == <<variant, gui_active, arguments, disp_graphical, datasets,
             datavector, datawritebuffer, errorcounter, commtimer, orphans,
             runner, mainpc, panel, lcd, led_data, led_out, hist>>

\* pollTargetData over a table of one row whose read is answered
PollRow ==
    /\ call = NoCall
    /\ \E type \in Types \cup {"S8"}, format \in dataformat, words \in Contents :
          /\ type \in {"STR24", "STR32"} => Ascii(words)
          /\ LET st == Loop(LoopStart(0), <<Row(type, format)>>,
                            Responses(<<words>>, "none"))
                 known == type \in DOMAIN moddatatype
                 count == IF known THEN moddatatype[type] ELSE 0
             IN  call' = [fn |-> "pollTargetData", type |-> type,
                          format |-> format, words |-> words,
                          asked |-> st.cause # "KeyError", count |-> count,
                          interpreted |->
                              IF known THEN Interpret(type, Registers(words, count))
                              ELSE NoValue,
                          end |-> st.end, dv |-> st.dv]
    /\ UNCHANGED program

\* the watt values the LED ladders are called with
LedWatts == (0 - MaxNegWatt)..MaxLedWatt

\* writeLoggerDataLCD, "formats led data": the level one ladder gives to
\* set_led, the green one for ac_watts_i, the red one for load_wa_i
LedLevel ==
    /\ call = NoCall
    /\ \E color \in {"green", "red"}, w \in LedWatts :
          call' = [fn |-> "level", color |-> color, w |-> w,
                   level |-> Level(Small(w))]
    /\ UNCHANGED program

\* led_data as set_led can have left it
LedStates == {<<0, 0>>, <<127, 255>>, <<64, 129>>}

\* the orders in which the three channels can be set
Orders ==
    {<<"red", "green", "backlight">>, <<"red", "backlight", "green">>,
     <<"green", "red", "backlight">>, <<"green", "backlight", "red">>,
     <<"backlight", "red", "green">>, <<"backlight", "green", "red">>}

\* led.set_led for each of the three channels, in some order
SetLeds ==
    /\ call = NoCall
    /\ \E from \in LedStates, order \in Orders,
          level \in [{"red", "green"} -> -1..8] \X {0, 1} :
          LET lv(c) == IF c = "backlight" THEN level[2] ELSE level[1][c]
              d1 == set_led(from, order[1], lv(order[1]))
              d2 == set_led(d1, order[2], lv(order[2]))
              d3 == set_led(d2, order[3], lv(order[3]))
          IN  call' = [fn |-> "set_led", from |-> from, order |-> order,
                       red |-> level[1]["red"], green |-> level[1]["green"],
                       backlight |-> level[2], out |-> d3]
    /\ UNCHANGED program

\* every led_data a sequence of set_led calls can have left: the red byte
\* from the red table, the green byte from the green table, with and
\* without the backlight bit
LedData ==
    {<<red_leds(r), green_leds(g) + 128 * b>> :
        r \in 0..7, g \in 0..7, b \in {0, 1}}

\* one call of led.set_led
SetLed ==
    /\ call = NoCall
    /\ \E from \in LedData, color \in {"green", "red", "backlight"},
          level \in -1..8 :
          call' = [fn |-> "set_led_call", from |-> from, color |-> color,
                   level |-> level, out |-> set_led(from, color, level)]
    /\ UNCHANGED program

\* ------------------------------------------------ GLCD.convert_image (mono)
\* the pixel positions (col, row) of an image of the panel size
Pixels == (0..(PanelWidth - 1)) \X (0..(PanelPages * 8 - 1))

\* the sets of at most two pixel positions
Lit == {{p, q} : p \in Pixels, q \in Pixels} \cup {{}}

\* image.load() of a mode '1' image: a set pixel reads 255, a clear one 0
Images == {[p \in Pixels |-> IF p \in s THEN 255 ELSE 0] : s \in Lit}

\* the loop "for bit in [0, 1, 2, 3, 4, 5, 6, 7]": column is shifted left
\* and the pixel of row page*8+7-bit is put into its lowest bit
RECURSIVE ColumnLoop(_, _, _, _, _)
ColumnLoop(pixels, col, page, bit, column) ==
    IF bit > 7 THEN column
    ELSE ColumnLoop(pixels, col, page, bit + 1,
                    column * 2 + (IF pixels[<<col, page * 8 + 7 - bit>>] = 0
                                  THEN 0 ELSE 1))

\* a loop that takes the rows of a page from the top
RECURSIVE ColumnLoopDown(_, _, _, _, _)
ColumnLoopDown(pixels, col, page, bit, column) ==
    IF bit > 7 THEN column
    ELSE ColumnLoopDown(pixels, col, page, bit + 1,
                        column * 2 + (IF pixels[<<col, page * 8 + bit>>] = 0
                                      THEN 0 ELSE 1))

\* a convert_image whose bytes have the top row of a page in bit 7
convert_image_down(pixels) ==
    [index \in 1..(PanelPages * PanelWidth) |->
        ColumnLoopDown(pixels, (index - 1) % PanelWidth,
                       (index - 1) \div PanelWidth, 0, 0)]

\* GLCD.convert_image: lcd_image_data, page after page and column after
\* column (the byte of Python index i is element i + 1)
convert_image(pixels) ==
    [index \in 1..(PanelPages * PanelWidth) |->
        ColumnLoop(pixels, (index - 1) % PanelWidth,
                   (index - 1) \div PanelWidth, 0, 0)]

ConvertImage ==
    /\ call = NoCall
    /\ variant = "mono"
    /\ \E image \in Images :
          call' = [fn |-> "convert_image", image |-> image,
                   out |-> convert_image(image)]
    /\ UNCHANGED program

\* --------------------------------------------- CGLCD.convert_colors (colour)
\* a & b and a | b of Python, for a, b >= 0
RECURSIVE BitAnd(_, _)
BitAnd(a, b) ==
    IF a = 0 \/ b = 0 THEN 0
    ELSE 2 * BitAnd(a \div 2, b \div 2) + (a % 2) * (b % 2)

RECURSIVE BitOr(_, _)
BitOr(a, b) ==
    IF a = 0 THEN b
    ELSE IF b = 0 THEN a
    ELSE 2 * BitOr(a \div 2, b \div 2) + (IF a % 2 = 1 \/ b % 2 = 1 THEN 1 ELSE 0)

\* the values a colour channel of a pixel takes here (of 0..255)
Shades == {0, 1, 3, 4, 7, 8, 31, 32, 36, 127, 128, 170, 248, 251, 252, 255}

\* a convert_colors that shifts green by 2 for the second byte
convert_colors_shift(colormode, colors) ==
    LET red == colors[1]
        green == colors[2]
        blue == colors[3]
    IN  IF colormode = "16bit"
        THEN <<BitOr(BitAnd(248, red), BitAnd(7, green \div 32)),
               BitOr(BitAnd(224, green * 4), BitAnd(31, blue \div 8))>>
        ELSE <<BitAnd(252, red), BitAnd(252, green), BitAnd(252, blue)>>

\* a convert_colors whose first byte holds red only
convert_colors_red(colormode, colors) ==
    LET red == colors[1]
        green == colors[2]
        blue == colors[3]
    IN  IF colormode = "16bit"
        THEN <<BitAnd(248, red),
               BitOr(BitAnd(224, green * 8), BitAnd(31, blue \div 8))>>
        ELSE <<BitAnd(252, red), BitAnd(252, green), BitAnd(252, blue)>>

\* CGLCD.convert_colors with self.colormode = colormode
convert_colors(colormode, colors) ==
    LET red == colors[1]
        green == colors[2]
        blue == colors[3]
    IN  IF colormode = "16bit"
        THEN <<BitOr(BitAnd(248, red), BitAnd(7, green \div 32)),
               BitOr(BitAnd(224, green * 8), BitAnd(31, blue \div 8))>>
        ELSE <<BitAnd(252, red), BitAnd(252, green), BitAnd(252, blue)>>

ConvertColors ==
    /\ call = NoCall
    /\ variant = "colour"
    /\ \E colormode \in {"16bit", "18bit"}, colors \in Shades \X Shades \X Shades :
          call' = [fn |-> "convert_colors", colormode |-> colormode,
                   colors |-> colors, out |-> convert_colors(colormode, colors)]
    /\ UNCHANGED program

\* ------------------------------------- writeLoggerDataLCD: the gauge angles
\* math.log10 by a table: Root90[j + 1] is the largest integer n with
\* n^90 <= 10^j, that is floor(10^(j/90)), for j = 0..450
Root90 ==
    <<
      1, 1, 1, 1, 1, 1, 1, 1, 1, 1,
      1, 1, 1, 1, 1, 1, 1, 1, 1, 1,
      1, 1, 1, 1, 1, 1, 1, 1, 2, 2,
      2, 2, 2, 2, 2, 2, 2, 2, 2, 2,
      2, 2, 2, 3, 3, 3, 3, 3, 3, 3,
      3, 3, 3, 3, 3, 4, 4, 4, 4, 4,
      4, 4, 4, 5, 5, 5, 5, 5, 5, 5,
      5, 6, 6, 6, 6, 6, 6, 7, 7, 7,
      7, 7, 8, 8, 8, 8, 9, 9, 9, 9,
      10, 10, 10, 10, 11, 11, 11, 11, 12, 12,
      12, 13, 13, 13, 14, 14, 15, 15, 15, 16,
      16, 17, 17, 18, 18, 18, 19, 19, 20, 21,
      21, 22, 22, 23, 23, 24, 25, 25, 26, 27,
      27, 28, 29, 30, 30, 31, 32, 33, 34, 35,
      35, 36, 37, 38, 39, 40, 41, 42, 44, 45,
      46, 47, 48, 50, 51, 52, 54, 55, 56, 58,
      59, 61, 63, 64, 66, 68, 69, 71, 73, 75,
      77, 79, 81, 83, 85, 87, 90, 92, 95, 97,
      100, 102, 105, 107, 110, 113, 116, 119, 122, 125,
      129, 132, 135, 139, 143, 146, 150, 154, 158, 162,
      166, 171, 175, 180, 184, 189, 194, 199, 204, 210,
      215, 221, 226, 232, 238, 244, 251, 257, 264, 271,
      278, 285, 292, 300, 308, 316, 324, 332, 341, 350,
      359, 368, 378, 388, 398, 408, 419, 429, 441, 452,
      464, 476, 488, 501, 514, 527, 541, 555, 569, 584,
      599, 615, 630, 647, 664, 681, 698, 717, 735, 754,
      774, 794, 814, 836, 857, 879, 902, 926, 950, 974,
      1000, 1025, 1052, 1079, 1107, 1136, 1165, 1196, 1227, 1258,
      1291, 1325, 1359, 1394, 1430, 1467, 1505, 1544, 1584, 1625,
      1668, 1711, 1755, 1801, 1847, 1895, 1944, 1995, 2046, 2100,
      2154, 2210, 2267, 2326, 2386, 2448, 2511, 2576, 2643, 2712,
      2782, 2854, 2928, 3004, 3082, 3162, 3244, 3328, 3414, 3503,
      3593, 3686, 3782, 3880, 3981, 4084, 4190, 4298, 4410, 4524,
      4641, 4761, 4885, 5011, 5141, 5274, 5411, 5551, 5695, 5843,
      5994, 6150, 6309, 6473, 6640, 6812, 6989, 7170, 7356, 7547,
      7742, 7943, 8149, 8360, 8576, 8799, 9027, 9261, 9501, 9747,
      10000, 10259, 10525, 10797, 11077, 11364, 11659, 11961, 12271, 12589,
      12915, 13250, 13593, 13945, 14307, 14677, 15058, 15448, 15848, 16259,
      16681, 17113, 17556, 18011, 18478, 18957, 19448, 19952, 20469, 21000,
      21544, 22102, 22675, 23263, 23865, 24484, 25118, 25769, 26437, 27122,
      27825, 28546, 29286, 30045, 30823, 31622, 32442, 33282, 34145, 35030,
      35938, 36869, 37824, 38805, 39810, 40842, 41900, 42986, 44100, 45243,
      46415, 47618, 48852, 50118, 51417, 52749, 54116, 55519, 56958, 58434,
      59948, 61501, 63095, 64730, 66408, 68129, 69894, 71706, 73564, 75470,
      77426, 79432, 81491, 83603, 85769, 87992, 90272, 92611, 95011, 97474,
      100000
    >>

\* the smallest j in lo..hi with 10^(j/90) >= n: ceil(90 * log10(n)) for
\* 1 <= n <= 100000
RECURSIVE Log90(_, _, _)
Log90(n, lo, hi) ==
    IF lo = hi THEN lo
    ELSE LET mid == (lo + hi) \div 2
         IN  IF Root90[mid + 1] >= n THEN Log90(n, lo, mid)
             ELSE Log90(n, mid + 1, hi)

\* a display value without the low-end compensation
watts_disp_plain(w) ==
    LET positive == IF 10 * w <= 0 THEN 1000 ELSE 10 * w
    IN  IF positive >= 100000 THEN 100000 ELSE positive

\* ac_watts_disp / load_watts_disp in units of 0.0001 kW, after the
\* low-end compensation (colour: d*0.9+0.1 below 1, mono: d+0.1 below 0.9),
\* the replacement of a value <= 0 by 0.1 and the cap at 10.0
watts_disp(w) ==
    LET compensated ==
            IF variant = "colour"
            THEN IF w < 1000 THEN 9 * w + 1000 ELSE 10 * w
            ELSE IF w < 900 THEN 10 * w + 1000 ELSE 10 * w
        positive == IF compensated <= 0 THEN 1000 ELSE compensated
    IN  IF positive >= 100000 THEN 100000 ELSE positive

\* the watt values for which the exact sum is a power of ten below 0.1 and
\* the double that d*0.9+0.1 or d+0.1 evaluates to lies just above it
RoundedUp(w) ==
    IF variant = "colour" THEN w \in {-111, -110} ELSE w \in {-99, -90}

\* yield_angle / load_angle: int(-((pi/2*(1-log10(d)))/pi*180)), which is
\* -floor(90 * (1 - log10(d))) = ceil(90 * log10(10000 * d)) - 450
angle(w) ==
    Log90(watts_disp(w), 0, 450) - 450 + (IF RoundedUp(w) THEN 1 ELSE 0)

\* the watt values the gauge is drawn for
GaugeWatts == (0 - MaxNegWatt)..MaxWatt

GaugeAngle ==
    /\ call = NoCall
    /\ \E w \in GaugeWatts :
          call' = [fn |-> "angle", w |-> w, angle |-> angle(w)]
    /\ UNCHANGED program

NextUnits ==
    \/ PollRow
    \/ LedLevel
    \/ SetLeds
    \/ SetLed
    \/ ConvertImage
    \/ ConvertColors
    \/ GaugeAngle

SpecUnits == InitUnits /\ [][NextUnits]_vars

\* ==================================================== the control panel
\* The poll chain of the control panel together with the buttons that
\* change data.datasets.

\* the control panel is used with at most this many data rows
MaxPanelRows == 2

\* the table the control panel starts with
TablePanel == <<Header, Row("S32", "FIX0"), Row("U32", "FIX2")>>

\* rows the entry fields of the control panel are filled with
NewRows == {Row("S32", "FIX0")}

\* the state when the window of the control panel has opened
InitPanel ==
    /\ variant \in {"colour", "mono"}
    /\ gui_active = 1
    /\ arguments = [graphical |-> "False", single |-> "False"]
    /\ disp_graphical = "unset"
    /\ datasets = TablePanel
    /\ datavector = <<>>
    /\ datawritebuffer = <<>>
    /\ errorcounter = 0
    /\ commtimer = "none"
    /\ orphans = 0
    /\ runner = [t \in Threads |-> "idle"]
    /\ mainpc = "start"
    /\ panel = <<>>
    /\ lcd = Blank
    /\ led_data = <<0, 0>>
    /\ led_out = <<0, 0>>
    /\ hist = [cyc |-> [t \in Threads |-> NoCycle], streak |-> 0,
               lastgood |-> <<>>, hasgood |-> FALSE, stopped |-> FALSE]
    /\ call = NoCall

\* data.datasets.index(thisdata): the position (from 0) of the first row
\* that equals thisdata
IndexOf(table, thisdata) ==
    CHOOSE i \in 0..(Len(table) - 1) :
       /\ table[i + 1] = thisdata
       /\ \A j \in 0..(i - 1) : table[j + 1] # thisdata

\* the values counter takes in the loop of displayDatasets
Counters == {IndexOf(datasets, datasets[k]) : k \in 1..Len(datasets)}

\* an Up button in every row but the header
UpButtonsFirst == {counter \in Counters : counter > 0}

\* the rows displayDatasets gives an Up, a Down and a Delete button
UpButtons == {counter \in Counters : counter > 1}

DownButtons ==
    {counter \in Counters : counter > 0 /\ counter # Len(datasets) - 1}

DeleteButtons == {counter \in Counters : counter > 0}

\* data.datasets[i], data.datasets[j] = data.datasets[j], data.datasets[i]
Swap(table, i, j) ==
    [table EXCEPT ![i + 1] = table[j + 1], ![j + 1] = table[i + 1]]

moveDatasetUp(i) == Swap(datasets, i, i - 1)

moveDatasetDown(i) == Swap(datasets, i, i + 1)

\* del data.datasets[i]
deleteDataset(i) ==
    SubSeq(datasets, 1, i) \o SubSeq(datasets, i + 2, Len(datasets))

\* data.datasets.append(inputdata)
addDataset(inputdata) == Append(datasets, inputdata)

\* the Tk main loop is waiting for an event: no callback of the control
\* panel is running in the main thread
TkIdle == gui_active = 1 /\ runner[0] \notin InFlightPc

\* what a button that changes the table leaves alone
exceptDatasets ==
    <<call, variant, gui_active, arguments, disp_graphical, datavector,
      datawritebuffer, errorcounter, commtimer, orphans, runner, mainpc,
      panel, lcd, led_data, led_out, hist>>

UpPressed ==
    /\ TkIdle
    /\ \E i \in UpButtons : datasets' = moveDatasetUp(i)
    /\ UNCHANGED exceptDatasets

DownPressed ==
    /\ TkIdle
    /\ \E i \in DownButtons : datasets' = moveDatasetDown(i)
    /\ UNCHANGED exceptDatasets

DeletePressed ==
    /\ TkIdle
    /\ \E i \in DeleteButtons : datasets' = deleteDataset(i)
    /\ UNCHANGED exceptDatasets

\* Gui.addNewDataset
AddPressed ==
    /\ TkIdle
    /\ Len(datasets) - 1 < MaxPanelRows
    /\ \E inputdata \in NewRows : datasets' = addDataset(inputdata)
    /\ UNCHANGED exceptDatasets

NextPanel ==
    \/ \E t \in Threads : Poll(t)
    \/ \E t \in Threads : Publish(t)
    \/ \E t \in Threads : Render(t)
    \/ \E t \in Threads : Arm(t)
    \/ FireCommTimer
    \/ FireOrphan
    \/ StartPressed
    \/ StopPressed
    \/ UpPressed
    \/ DownPressed
    \/ DeletePressed
    \/ AddPressed

SpecPanel == InitPanel /\ [][NextPanel]_vars

\* ---------------------------------------------------------------- claims

\* C1: under every interleaving of start, stop and timer firings at most
\* one poll chain is alive: at most one cycle is in progress, at most one
\* timer is pending, and never a cycle and a pending timer, or two of
\* either, at the same time.
C1_OneChain ==
    /\ Cardinality(InFlight) <= 1
    /\ PendingTimers <= 1
    /\ LiveChains <= 1

\* C2: a cycle during which stop was called runs to its end and then arms
\* no timer: the step in which such a cycle leaves runCommunication leaves
\* no timer pending.
C2_StopSuppressesReschedule ==
    [][\A t \in Threads :
          (runner[t] = "close" /\ hist.cyc[t].cancelled /\ runner'[t] = "idle")
             => PendingTimers' = 0]_vars

\* C3: once stop was called while a timer was pending and no cycle was
\* running, no timer is pending and no cycle runs until start is called.
C3_StopWhileWaiting == hist.stopped => LiveChains = 0

\* C4: a cycle that fails, whatever the failure and the row, in either
\* variant, ends with pollTargetData returning, so that runCommunication
\* arms the next timer: no thread leaves runCommunication from inside the
\* loop of pollTargetData.
C4_FailedCycleRearms ==
    [][\A t \in Threads : runner[t] = "poll" => runner'[t] # "idle"]_vars

\* C5: after a failed cycle that follows a successful one, data.datavector
\* and data.datawritebuffer both hold the values of the last fully
\* successful cycle.
C5_SnapshotRetained ==
    \A t \in Threads :
       (runner[t] = "close" /\ hist.cyc[t].cause # "none" /\ hist.hasgood)
          => /\ datavector = hist.lastgood
             /\ datawritebuffer = <<hist.lastgood>>

\* C6: (colour variant) a cycle in which one read fails increases the error
\* counter by exactly 1, and a fully successful cycle leaves it at 0.
C6_FailureCountsOnce ==
    [][variant = "colour" =>
         \A t \in Threads :
            /\ (runner[t] = "poll" /\ runner'[t] = "close")
                  => errorcounter' = errorcounter + 1
            /\ (runner[t] = "poll" /\ runner'[t] = "publish")
                  => errorcounter' = 0]_vars

\* C7: (colour variant) between cycles the error counter is the number of
\* consecutive failed cycles since the last fully successful one.
C7_CounterIsStreak ==
    (variant = "colour" /\ InFlight = {}) => errorcounter = hist.streak

\* C8: the render step runs exactly in the cycles that decoded every row,
\* after the snapshot was replaced and with that snapshot's values: a
\* thread that has handed over its vector writes the display with it, and
\* a cycle that is abandoned writes neither display nor LEDs.
C8_RenderIffDecoded ==
    [][\A t \in Threads :
          /\ (runner[t] = "render" /\ runner'[t] # "render")
                => /\ runner'[t] = "close"
                   /\ lcd' = Drawn(hist.lastgood)
          /\ (runner[t] = "poll" /\ runner'[t] \in {"close", "idle"})
                => UNCHANGED <<lcd, led_out>>]_vars

\* C9: a timer is created and started only by a thread whose cycle has
\* finished all its work: pollTargetData has returned, after abandoning
\* the cycle or after the display was written; no step of a thread that is
\* still reading or rendering, and no other step, makes a timer pending.
C9_TimerAfterCycle ==
    [][PendingTimers' > PendingTimers =>
         \E t \in Threads :
            /\ runner[t] = "close"
            /\ runner'[t] = "idle"
            /\ \A u \in Threads \ {t} : runner'[u] = runner[u]
            /\ hist.cyc[t].cause = "none" => lcd = Drawn(datawritebuffer[1])
            /\ UNCHANGED <<datavector, datawritebuffer, lcd, led_out>>]_vars

\* C9 witness: a timer is pending after a cycle that decoded every row and
\* wrote the display.
C9_Witness ==
    /\ commtimer = "pending"
    /\ InFlight = {}
    /\ lcd # Blank
    /\ lcd = Drawn(datawritebuffer[1])

\* C10: a row whose data type is not one of the known types does not make
\* the cycle fail: no cycle is abandoned because of the type of a row.
C10_UnknownTypeDecodes ==
    \A t \in Threads : runner[t] = "close" => hist.cyc[t].cause # "KeyError"

\* C11: for every data type and every format, the value pollTargetData
\* stores for a row is Null exactly when the interpreted integer is
\* -2147483648 or 4294967295, whatever the format (no scaling is applied
\* then); every other interpreted integer, and every text, gives a value
\* that is not Null.
C11_SentinelIsNull ==
    /\ (call.fn = "pollTargetData" /\ call.interpreted.kind = "int") =>
          /\ call.end = "done"
          /\ Len(call.dv) = 1
          /\ call.dv[1] = Null <=>
                call.interpreted \in {IntVal(TRUE, <<32768, 0>>),
                                      IntVal(FALSE, <<65535, 65535>>)}
    /\ (call.fn = "pollTargetData" /\ call.interpreted.kind = "text"
          /\ call.end = "done") => call.dv[1] # Null

\* C11 witness: a U64 row with a scaling format whose registers hold
\* 4294967295 has been read and stored as Null.
C11_Witness ==
    /\ call.fn = "pollTargetData"
    /\ call.type = "U64"
    /\ call.format = "FIX2"
    /\ call.words = <<0, 0, 65535, 65535>>
    /\ call.dv = <<Null>>

\* C12: the scaling of a row never fails: a Null stays Null, a text is
\* stored unchanged whatever the format, a number is divided by 1000, 100
\* or 10 for FIX3, FIX2, FIX1 and stored unchanged for every other format.
C12_ScalingTotal ==
    (call.fn = "pollTargetData" /\ call.interpreted.kind \in {"int", "text"}) =>
        /\ call.end = "done"
        /\ call.dv[1] =
              IF call.interpreted \in {MIN_SIGNED, MAX_UNSIGNED} THEN Null
              ELSE IF call.interpreted.kind = "text" THEN call.interpreted
              ELSE CASE call.format = "FIX3" -> FloatVal(call.interpreted, 1000)
                     [] call.format = "FIX2" -> FloatVal(call.interpreted, 100)
                     [] call.format = "FIX1" -> FloatVal(call.interpreted, 10)
                     [] OTHER -> call.interpreted

\* the register width the specification gives for a data type
RegisterWidth(type) ==
    CASE type \in {"S16", "U16"} -> 1
      [] type \in {"S32", "U32"} -> 2
      [] type = "U64" -> 4
      [] type = "STR24" -> 12
      [] type = "STR32" -> 16

\* C13: for each of the seven data types, in both variants, the read
\* request is issued and asks for 1, 1, 2, 2, 4, 12, 16 registers for S16,
\* U16, S32, U32, U64, STR24, STR32.
C13_RegisterWidths ==
    (call.fn = "pollTargetData" /\ call.type \in Types) =>
        /\ call.asked
        /\ call.count = RegisterWidth(call.type)

\* the thresholds of the LED ladders
Thresholds == {60, 120, 230, 450, 830, 1400, 2200}

Bit(n, i) == (n \div (2 ^ i)) % 2

\* a level as set_led takes it: below 0 is 0, above 7 is 7
Clamped(level) == IF level < 0 THEN 0 ELSE IF level > 7 THEN 7 ELSE level

\* C15: after set_led for red, green and backlight (in any order, from any
\* LED state) the red byte has exactly the bits 6 down to 7 - redLevel set
\* and bit 7 clear, the green byte has exactly the bits 0 up to
\* greenLevel - 1 set and bit 7 equal to the backlight value; a level
\* below 0 counts as 0, one above 7 as 7.
C15_LedBytes ==
    call.fn = "set_led" =>
        \A i \in 0..7 :
           /\ Bit(call.out[1], i) =
                 (IF i <= 6 /\ i >= 7 - Clamped(call.red) THEN 1 ELSE 0)
           /\ Bit(call.out[2], i) =
                 (IF i = 7 THEN call.backlight
                  ELSE IF i < Clamped(call.green) THEN 1 ELSE 0)

\* C15 witness: red 3, green 8 (taken as 7) and backlight on have been set
\* and led_data is 0b01110000, 0b11111111.
C15_Witness ==
    /\ call.fn = "set_led"
    /\ call.red = 3
    /\ call.green = 8
    /\ call.backlight = 1
    /\ call.out = <<112, 255>>

\* C16: the byte of index page*width + col of the mono encoder's output has
\* bit N (N = 0..7, bit 0 least significant) equal to the pixel of row
\* page*8 + N, column col; an image with one set pixel at (row, col) gives
\* exactly one byte that is not 0, at page row/8 and column col, with
\* exactly bit row%8 set; the image can be recovered from the bytes.
C16_MonoEncoding ==
    call.fn = "convert_image" =>
        /\ \A page \in 0..(PanelPages - 1), col \in 0..(PanelWidth - 1), N \in 0..7 :
              Bit(call.out[page * PanelWidth + col + 1], N) =
                 (IF call.image[<<col, page * 8 + N>>] # 0 THEN 1 ELSE 0)
        /\ \A index \in DOMAIN call.out : call.out[index] \in 0..255
        /\ \A p \in Pixels :
              (\A q \in Pixels : call.image[q] # 0 <=> q = p) =>
                 \A index \in DOMAIN call.out :
                    call.out[index] =
                       (IF index = (p[2] \div 8) * PanelWidth + p[1] + 1
                        THEN 2 ^ (p[2] % 8) ELSE 0)
        /\ [p \in Pixels |->
              255 * Bit(call.out[(p[2] \div 8) * PanelWidth + p[1] + 1], p[2] % 8)]
             = call.image

\* C16 witness: an image whose only set pixel is at row 9, column 1 has
\* been encoded.
C16_Witness ==
    /\ call.fn = "convert_image"
    /\ \A q \in Pixels : call.image[q] # 0 <=> q = <<1, 9>>
    /\ call.out[PanelWidth + 2] = 2

\* C17: for all r, g, b in 0..255 convert_colors returns in 16 bit mode
\* the two bytes (r & 0xF8) | (g >> 5) and ((g << 3) & 0xE0) | (b >> 3),
\* that is the 5-6-5 word (r>>3)<<11 | (g>>2)<<5 | (b>>3), and in 18 bit
\* mode the three bytes r & 0xFC, g & 0xFC, b & 0xFC; every byte is in
\* 0..255.
C17_ColourPacking ==
    call.fn = "convert_colors" =>
        LET r == call.colors[1]
            g == call.colors[2]
            b == call.colors[3]
        IN  /\ \A i \in DOMAIN call.out : call.out[i] \in 0..255
            /\ call.colormode = "16bit" =>
                  /\ call.out = <<(r - (r % 8)) + g \div 32,
                                  ((g \div 4) % 8) * 32 + b \div 8>>
                  /\ call.out[1] * 256 + call.out[2] =
                        (r \div 8) * 2048 + (g \div 4) * 32 + b \div 8
            /\ call.colormode = "18bit" =>
                  call.out = <<r - (r % 4), g - (g % 4), b - (b % 4)>>

\* C17 witness: the pixel (170, 36, 251) has been packed in 16 bit mode to
\* the bytes 169 and 63.
C17_Witness ==
    /\ call.fn = "convert_colors"
    /\ call.colormode = "16bit"
    /\ call.colors = <<170, 36, 251>>
    /\ call.out = <<169, 63>>

\* C18 (as stated): in 16 bit mode the pixel (0xF8, 0xFC, 0xF8) encodes to
\* the bytes 0xF8 and 0x9F.
C18_ExampleAsStated ==
    (call.fn = "convert_colors" /\ call.colormode = "16bit"
       /\ call.colors = <<248, 252, 248>>) => call.out = <<248, 159>>

\* C18 (amended): in 16 bit mode the pixel (0xF8, 0xFC, 0xF8) encodes to
\* the bytes 0xFF and 0xFF, the 5-6-5 word 0xFFFF of the packing formula.
C18_ExamplePixel ==
    (call.fn = "convert_colors" /\ call.colormode = "16bit"
       /\ call.colors = <<248, 252, 248>>) =>
        /\ call.out = <<255, 255>>
        /\ call.out[1] * 256 + call.out[2] =
              (248 \div 8) * 2048 + (252 \div 4) * 32 + 248 \div 8

\* C18 witness: the pixel (0xF8, 0xFC, 0xF8) has been packed in 16 bit mode.
C18_Witness ==
    /\ call.fn = "convert_colors"
    /\ call.colormode = "16bit"
    /\ call.colors = <<248, 252, 248>>
    /\ Len(call.out) = 2

\* C19: in both variants the gauge angle does not decrease when the watt
\* value grows: the angle of a watt value is at least the angle of the watt
\* value one below it, also across the threshold of the low-end
\* compensation.
C19_AngleMonotone ==
    (call.fn = "angle" /\ call.w - 1 \in GaugeWatts) =>
        angle(call.w - 1) <= call.angle

\* C20 (as stated): angle(100 W) = -180, angle(1000 W) = -90 and
\* angle(10000 W) = 0.
C20_AnglesAsStated ==
    call.fn = "angle" =>
        /\ call.w = 100 => call.angle = -180
        /\ call.w = 1000 => call.angle = -90
        /\ call.w = 10000 => call.angle = 0

\* C20 (amended): angle(0 W) = -180, angle(1000 W) = -90 and
\* angle(10000 W) = 0; 100 W lies above the left end of the gauge, at -154
\* in the colour variant and at -152 in the mono variant.
C20_GaugePoints ==
    call.fn = "angle" =>
        /\ call.w = 0 => call.angle = -180
        /\ call.w = 100 => call.angle = (IF variant = "colour" THEN -154 ELSE -152)
        /\ call.w = 1000 => call.angle = -90
        /\ call.w = 10000 => call.angle = 0

\* C20 witness: the angle for 100 W has been computed in the colour
\* variant and is -154.
C20_Witness ==
    /\ call.fn = "angle"
    /\ variant = "colour"
    /\ call.w = 100
    /\ call.angle = -154

\* C21: for every watt value, negative ones included, the compensated
\* display value handed to log10 lies between 0.1 and 10.0 kW (1000 and
\* 100000 in units of 0.0001 kW) and the angle lies between -180 and 0.
C21_GaugeRange ==
    call.fn = "angle" =>
        /\ watts_disp(call.w) \in 1000..100000
        /\ call.angle \in (0 - 180)..0

\* C23: a cycle that pollTargetData has abandoned has produced exactly one
\* failure report, on the active sink (dialog with the control panel,
\* console without), and the report carries a timestamp and the current
\* value of the error counter, whatever the kind of the failure.
C23_OneFailureReport ==
    \A t \in Threads :
       (runner[t] = "close" /\ hist.cyc[t].cause # "none")
          => hist.cyc[t].reports =
                <<Report(ActiveSink, TRUE, TRUE, errorcounter)>>

\* C22: no button of the control panel changes data.datasets while a poll
\* cycle is in progress: whenever the table changes, no thread is inside
\* runCommunication.
C22_MutateBetweenCycles ==
    [][datasets' # datasets => InFlight = {}]_vars

\* C24: whenever a snapshot exists, it has one entry per data row of the
\* current data.datasets, and entry i is a value of the row i + 1 (a float
\* for a row of format FIX2, an integer for a row of format FIX0).
C24_SnapshotAligned ==
    datawritebuffer # <<>> =>
        /\ Len(datawritebuffer[1]) = Len(datasets) - 1
        /\ \A i \in 1..Len(datawritebuffer[1]) :
              i + 1 <= Len(datasets) =>
                 (datawritebuffer[1][i].kind = "float"
                     <=> datasets[i + 1].format = "FIX2")

\* the header row is the first row of data.datasets and no other row
HeaderFirst ==
    /\ datasets[1] = Header
    /\ \A k \in 2..Len(datasets) : datasets[k] # Header

\* C29: after any sequence of add, move up, move down and delete through
\* the buttons of displayDatasets the header row is still the first row of
\* data.datasets, and a poll cycle that reads every row yields one value
\* per row after the header.
C29_HeaderStays ==
    /\ []HeaderFirst
    /\ [][\A t \in Threads :
            (runner[t] = "poll" /\ runner'[t] = "publish")
               => Len(datavector') = Len(datasets) - 1]_vars

\* C29 witness: the second row has been moved up to the first place and a
\* poll cycle over the reordered table has read both rows.
C29_Witness ==
    /\ datasets = <<Header, Row("U32", "FIX2"), Row("S32", "FIX0")>>
    /\ hist.hasgood
    /\ Len(hist.lastgood) = 2
    /\ hist.lastgood[1].kind = "float"

\* C27: a render step over a snapshot of six fields, each of them Null or a
\* number the layout can take, with the display mode assigned, does not
\* raise: the thread goes on to close the cycle and arm the timer.
C27_NullRenders ==
    [][\A t \in Threads :
         (/\ runner[t] = "render"
          /\ disp_graphical # "unset"
          /\ Len(datawritebuffer[1]) = 6
          /\ \A i \in 1..6 :
                \/ datawritebuffer[1][i] = Null
                \/ Convertible(datawritebuffer[1][i]))
            => runner'[t] # "idle"]_vars

\* C25: in command line mode what the render step has drawn is the
\* graphical layout if --graphical was given and the text layout if it was
\* not.
C25_LayoutFollowsOption ==
    (gui_active = 0 /\ lcd.layout # "blank") =>
        lcd.layout = (IF arguments.graphical = "True" THEN "graphical"
                      ELSE "text")

\* C26: with --single only the cycle of the main thread is executed: no
\* timer thread ever enters runCommunication, and once the first
\* runCommunication has returned and the --single test has been passed no
\* timer is pending and the program has exited.
C26_SingleCycle ==
    (gui_active = 0 /\ arguments.single = "True") =>
        /\ \A t \in TimerThreads : runner[t] \notin InFlightPc
        /\ mainpc = "exited" => (PendingTimers = 0 /\ InFlight = {})

\* C28: one call of set_led changes its own channel only: 'green' leaves
\* the red byte and bit 7 of the green byte as they were, 'red' leaves the
\* green byte, 'backlight' leaves the red byte and the bits 0..6 of the
\* green byte; from every led_data that set_led calls can have left, both
\* bytes of the result are in 0..255, bit 7 of the red byte is 0, and the
\* result is again such a led_data.
C28_SetLedFrame ==
    call.fn = "set_led_call" =>
        /\ call.color = "green" =>
              /\ call.out[1] = call.from[1]
              /\ Bit(call.out[2], 7) = Bit(call.from[2], 7)
        /\ call.color = "red" => call.out[2] = call.from[2]
        /\ call.color = "backlight" =>
              /\ call.out[1] = call.from[1]
              /\ \A i \in 0..6 : Bit(call.out[2], i) = Bit(call.from[2], i)
        /\ call.out[1] \in 0..255
        /\ call.out[2] \in 0..255
        /\ Bit(call.out[1], 7) = 0
        /\ call.out \in LedData

\* C28 witness: with the backlight on and two red LEDs lit, the green
\* level 3 has been set: the red byte and the backlight bit are unchanged.
C28_Witness ==
    /\ call.fn = "set_led_call"
    /\ call.from = <<96, 129>>
    /\ call.color = "green"
    /\ call.level = 3
    /\ call.out = <<96, 135>>

\* C30: whenever a thread is about to run the render step, disp_graphical
\* has been assigned, whether the cycle was started from the control panel
\* or from the command line section, so that the render step does not end
\* the cycle with a NameError.
C30_ModeAssigned ==
    \A t \in Threads : runner[t] = "render" => disp_graphical # "unset"

====
